---- MODULE Spec2Model ----
(***************************************************************************)
(* A model of src/vision_interpreter.py: the VisionInterpreter rule        *)
(* engine.  Python strings are TLA+ strings (\o is +), Python lists are    *)
(* sequences, dicts are sequences of entries in insertion order.  Every    *)
(* call of analyze is a little process with its own locals; the two        *)
(* catalogs are the only state shared between calls.                       *)
(***************************************************************************)
EXTENDS Integers, Sequences, FiniteSets, TLC

(***************************************************************************)
(* Bounds of the model.                                                    *)
(***************************************************************************)
\* longest detected_objects list that is enumerated
MaxObjs == 3
\* number of analyze calls that run interleaved on one interpreter
NumCalls == 2

(***************************************************************************)
(* Python values.                                                          *)
(***************************************************************************)
\* a list value and the None value, told apart by their type
PyList(s) == [type |-> "list", value |-> s]
PyNone == [type |-> "NoneType", value |-> <<>>]

\* x in lst, for a list
In(x, lst) == \E k \in 1..Len(lst) : lst[k] = x

\* dict.get(key, default)
Get(d, key, default) == IF key \in DOMAIN d THEN d[key] ELSE default

\* truth value of a list: a list is true exactly when it is not empty
Truthy(lst) == Len(lst) > 0

\* sep.join(parts)
RECURSIVE Join(_, _)
Join(parts, sep) ==
    IF Len(parts) = 0 THEN ""
    ELSE IF Len(parts) = 1 THEN parts[1]
    ELSE parts[1] \o sep \o Join(Tail(parts), sep)

(***************************************************************************)
(* class SuspicionLevel                                                    *)
(***************************************************************************)
NORMAL == "normal"
UNUSUAL == "unusual"
SUSPICIOUS == "suspicious"
SuspicionLevel == {NORMAL, UNUSUAL, SUSPICIOUS}

(***************************************************************************)
(* The catalogs that __init__ builds, in insertion order.                  *)
(***************************************************************************)
InitCommonCombinations == <<
    [combo |-> <<"person", "dog">>,     activity |-> "walking a dog"],
    [combo |-> <<"person", "bicycle">>, activity |-> "cycling or with a bicycle"],
    [combo |-> <<"person", "car">>,     activity |-> "near or entering a vehicle"],
    [combo |-> <<"person", "bag">>,     activity |-> "carrying belongings"],
    [combo |-> <<"person", "phone">>,   activity |-> "using a mobile device"] >>

InitSuspiciousPatterns == <<
    [pattern |-> <<"person", "window", "night">>, warning |-> "possible intrusion attempt"],
    [pattern |-> <<"person", "running", "bag">>,  warning |-> "potential theft in progress"],
    [pattern |-> <<"person", "mask", "weapon">>,  warning |-> "armed individual"],
    [pattern |-> <<"fire", "smoke">>,             warning |-> "fire hazard detected"] >>

\* The literal that opens every highlight (the f-strings of lines 157 and
\* 170).  It is six non-ASCII characters in the source, which a TLA+ string
\* cannot hold; "(!)" stands for them.  A blank follows it in the f-string.
AlertPrefix == "(!)"

(***************************************************************************)
(* _generate_summary                                                       *)
(***************************************************************************)
_generate_summary(objs, scn, act) ==
    IF ~Truthy(objs) THEN "Empty " \o scn \o " scene detected."
    ELSE "A " \o objs[1] \o " " \o act \o " in a " \o scn \o " setting."

(***************************************************************************)
(* _create_description                                                     *)
(***************************************************************************)
\* the inner loop (lines 99-102): the catalog is scanned from entry k and the
\* scan stops (break) at the first entry that holds "person" and obj
RECURSIVE ComboScan(_, _, _, _)
ComboScan(cc, obj, k, person_desc) ==
    IF k > Len(cc) THEN person_desc
    ELSE IF In("person", cc[k].combo) /\ In(obj, cc[k].combo)
         THEN "A person is " \o cc[k].activity
         ELSE ComboScan(cc, obj, k + 1, person_desc)

\* a faulty outer loop: the break leaves both loops, so that the first
\* matching object decides
RECURSIVE PersonDescFirstMatch(_, _, _, _)
PersonDescFirstMatch(cc, objs, n, person_desc) ==
    IF n > Len(objs) THEN person_desc
    ELSE IF objs[n] # "person" /\ ComboScan(cc, objs[n], 1, "") # ""
         THEN ComboScan(cc, objs[n], 1, person_desc)
         ELSE PersonDescFirstMatch(cc, objs, n + 1, person_desc)

\* the outer loop (lines 97-102) over the objects in detection order, from n
RECURSIVE PersonDesc(_, _, _, _)
PersonDesc(cc, objs, n, person_desc) ==
    IF n > Len(objs) THEN person_desc
    ELSE PersonDesc(cc, objs, n + 1,
                    IF objs[n] # "person"
                    THEN ComboScan(cc, objs[n], 1, person_desc)
                    ELSE person_desc)

IsNotPerson(obj) == obj # "person"

\* other_objects (line 107)
OtherObjects(objs) == SelectSeq(objs, IsNotPerson)

\* desc_parts as it stands at line 114
DescParts(cc, objs, act) ==
    LET person_part == IF In("person", objs)
                       THEN << PersonDesc(cc, objs, 1, "A person is " \o act) >>
                       ELSE << >>
        other_objects == OtherObjects(objs)
        other_part == IF ~Truthy(other_objects) THEN << >>
                      ELSE IF Len(other_objects) = 1
                           THEN << "A " \o other_objects[1] \o " is also visible" >>
                           ELSE << "Also visible: " \o Join(other_objects, ", ") >>
    IN  person_part \o other_part

\* a faulty line 114: a period is put before " on a"
DescriptionTextWithPeriod(desc_parts, scn) ==
    Join(desc_parts, ". ") \o ". on a " \o scn \o "."

\* line 114: the text built from desc_parts
DescriptionText(desc_parts, scn) ==
    Join(desc_parts, ". ") \o " on a " \o scn \o "."

_create_description(cc, objs, scn, act) ==
    IF ~Truthy(objs)
    THEN "The camera shows an empty " \o scn \o " with no significant activity."
    ELSE DescriptionText(DescParts(cc, objs, act), scn)

(***************************************************************************)
(* _analyze_context                                                        *)
(***************************************************************************)
_analyze_context(objs, scn, act) ==
    LET scene_ctx ==
            IF scn \in {"street", "sidewalk", "road"}
            THEN << "This appears to be a public urban area" >>
            ELSE IF scn \in {"park", "garden", "field"}
            THEN << "This is an outdoor recreational area" >>
            ELSE IF scn \in {"home", "house", "apartment"}
            THEN << "This is a residential setting" >>
            ELSE IF scn \in {"store", "shop", "mall"}
            THEN << "This is a commercial environment" >>
            ELSE << >>
        action_ctx ==
            IF act \in {"running", "jogging"}
            THEN << "showing active movement" >>
            ELSE IF act \in {"sitting", "standing", "waiting"}
            THEN << "with minimal activity" >>
            ELSE IF act \in {"walking", "strolling"}
            THEN << "with normal pedestrian movement" >>
            ELSE << >>
        object_ctx ==
            IF In("person", objs) /\ In("dog", objs)
            THEN << "likely a pet owner during routine exercise" >>
            ELSE IF In("person", objs) /\ In("bicycle", objs)
            THEN << "suggesting eco-friendly transportation or recreation" >>
            ELSE << >>
        contexts == scene_ctx \o action_ctx \o object_ctx
    IN  IF Truthy(contexts) THEN Join(contexts, ". ") \o "."
        ELSE "Standard scene with typical elements."

(***************************************************************************)
(* _check_suspicious_activity                                              *)
(***************************************************************************)
\* a faulty line 156: the pattern is looked up among the objects alone
PatternMatchesObjectsOnly(pattern, objs, act, tm) ==
    \A k \in 1..Len(pattern) : In(pattern[k], objs)

\* line 156: all(item in objects + [action, time] for item in pattern)
PatternMatches(pattern, objs, act, tm) ==
    \A k \in 1..Len(pattern) : In(pattern[k], objs \o <<act, tm>>)

\* lines 156-158: one pass of the catalog loop; st holds the two locals
PatternStep(st, rule, objs, act, tm) ==
    IF PatternMatches(rule.pattern, objs, act, tm)
    THEN [highlights |-> Append(st.highlights, AlertPrefix \o " " \o rule.warning),
          suspicion_level |-> SUSPICIOUS]
    ELSE st

\* lines 161-166: the list of (condition, message) pairs.  `L and e` is e
\* when the list L is not empty, and a list standing alone as a condition is
\* true when it is not empty.
unusual_checks(objs, scn, act, tm) == <<
    [condition |-> IF Truthy(<<"person", "running">>) THEN tm = "night" ELSE FALSE,
     message |-> "Person running at night"],
    [condition |-> IF Truthy(<<"person">>) THEN scn = "restricted" ELSE FALSE,
     message |-> "Unauthorized person in restricted area"],
    [condition |-> act = "climbing" /\ scn # "gym",
     message |-> "Unusual climbing activity"],
    [condition |-> Truthy(<<"crowd", "running">>),
     message |-> "Multiple people running - possible emergency"] >>

\* a faulty pass: line 171 is missing, a true guard always sets UNUSUAL
UnusualStepOverwrites(st, check) ==
    IF check.condition
    THEN [highlights |-> Append(st.highlights, AlertPrefix \o " " \o check.message),
          suspicion_level |-> UNUSUAL]
    ELSE st

\* a faulty pass: lines 171-172 are missing, a true guard adds its highlight
\* and leaves the level alone
UnusualStepKeepsLevel(st, check) ==
    IF check.condition
    THEN [highlights |-> Append(st.highlights, AlertPrefix \o " " \o check.message),
          suspicion_level |-> st.suspicion_level]
    ELSE st

\* lines 169-172: one pass of the loop over unusual_checks
UnusualStep(st, check) ==
    IF check.condition
    THEN [highlights |-> Append(st.highlights, AlertPrefix \o " " \o check.message),
          suspicion_level |-> IF st.suspicion_level = NORMAL THEN UNUSUAL
                              ELSE st.suspicion_level]
    ELSE st

RECURSIVE PatternLoop(_, _, _, _, _, _)
PatternLoop(sp, k, st, objs, act, tm) ==
    IF k > Len(sp) THEN st
    ELSE PatternLoop(sp, k + 1, PatternStep(st, sp[k], objs, act, tm), objs, act, tm)

RECURSIVE UnusualLoop(_, _, _)
UnusualLoop(checks, k, st) ==
    IF k > Len(checks) THEN st
    ELSE UnusualLoop(checks, k + 1, UnusualStep(st, checks[k]))

_check_suspicious_activity(sp, objs, scn, act, tm) ==
    UnusualLoop(unusual_checks(objs, scn, act, tm), 1,
                PatternLoop(sp, 1, [highlights |-> << >>, suspicion_level |-> NORMAL],
                            objs, act, tm))

(***************************************************************************)
(* format_output: the list `output` before the final join.  The pictograms *)
(* that open the section lines are non-ASCII and are left out.             *)
(***************************************************************************)
RECURSIVE HighlightLines(_)
HighlightLines(hs) ==
    IF Len(hs) = 0 THEN << >>
    ELSE << "  - " \o hs[1] >> \o HighlightLines(Tail(hs))

Upper(level) ==
    CASE level = NORMAL -> "NORMAL"
      [] level = UNUSUAL -> "UNUSUAL"
      [] level = SUSPICIOUS -> "SUSPICIOUS"

NoAlertLine == "\nNo unusual activity detected"
AlertsLine == "\nALERTS:"

format_output(analysis) ==
    << "==================================================",
       "VISION ANALYSIS REPORT",
       "==================================================",
       "\nSUMMARY: " \o analysis.summary,
       "\nDESCRIPTION: " \o analysis.description,
       "\nCONTEXT: " \o analysis.context,
       "\nSUSPICION LEVEL: " \o Upper(analysis.suspicion_level) >>
    \o (IF Truthy(analysis.highlights)
        THEN << AlertsLine >> \o HighlightLines(analysis.highlights)
        ELSE << NoAlertLine >>)
    \o << "\n==================================================" >>

(***************************************************************************)
(* The inputs of analyze.  A record holds any subset of the four keys;     *)
(* detected_objects holds a list or None.                                  *)
(***************************************************************************)
ObjTokens == {"person", "dog", "bicycle", "bag", "window", "mask", "weapon",
              "fire", "smoke", "crowd"}
Scenes == {"restricted", "gym", "street"}
Actions == {"running", "climbing", "walking"}
Times == {"night"}

ObjLists == UNION {[1..n -> ObjTokens] : n \in 0..MaxObjs}

\* a key that is absent, or present with one of the values of S
Absent == [present |-> FALSE, value |-> ""]
AbsentList == [present |-> FALSE, value |-> PyList(<< >>)]
Present(S) == {[present |-> TRUE, value |-> v] : v \in S}

ObjectChoices == {AbsentList} \cup Present({PyNone}) \cup Present({PyList(l) : l \in ObjLists})
SceneChoices == {Absent} \cup Present(Scenes)
ActionChoices == {Absent} \cup Present(Actions)
TimeChoices == {Absent} \cup Present(Times)

\* the record that holds exactly the keys that are present
MkInput(o, s, a, t) ==
    LET choice == [detected_objects |-> o, scene |-> s, action |-> a, time |-> t]
    IN  [key \in {k \in DOMAIN choice : choice[k].present} |-> choice[key].value]

\* the test_cases of main(), followed by a record with no key and a record
\* whose detected_objects is None
TestCases == <<
    [detected_objects |-> PyList(<<"person", "dog", "bicycle">>),
     scene |-> "street", action |-> "walking"],
    [detected_objects |-> PyList(<<"person", "bag", "running">>),
     scene |-> "store", action |-> "running", time |-> "night"],
    [detected_objects |-> PyList(<<"car", "person", "smoke">>),
     scene |-> "parking lot", action |-> "standing"],
    [detected_objects |-> PyList(<<"person", "ladder", "window">>),
     scene |-> "house", action |-> "climbing", time |-> "night"] >>

ConcurrentInputs == TestCases \o << MkInput(AbsentList, Absent, Absent, Absent),
                                    [detected_objects |-> PyNone] >>

(***************************************************************************)
(* State.  The catalogs belong to the interpreter; everything else is a    *)
(* local of one analyze call, indexed by the call.                         *)
(***************************************************************************)
VARIABLES
    common_combinations,    \* self.common_combinations
    suspicious_patterns,    \* self.suspicious_patterns
    pc,                     \* where each call stands
    vision_input,           \* the argument of analyze
    objects, scene, action, time_of_day,    \* lines 50-53
    summary, desc_parts, description, context,
    highlights, suspicion_level,    \* locals of _check_suspicious_activity
    idx,                    \* position of the running for loop
    result,                 \* the VisionAnalysis that analyze returned
    report                  \* the lines format_output made of it

catalogs == << common_combinations, suspicious_patterns >>
args == << vision_input, objects, scene, action, time_of_day >>
texts == << summary, desc_parts, description, context >>
check_locals == << highlights, suspicion_level, idx >>
vars == << catalogs, pc, args, texts, check_locals, result, report >>

Calls == DOMAIN pc

NoResult == [summary |-> "", description |-> "", context |-> "",
             suspicion_level |-> "", highlights |-> << >>]

\* the state after __init__, with the calls of cs not yet begun
InitCalls(cs) ==
    /\ common_combinations = InitCommonCombinations
    /\ suspicious_patterns = InitSuspiciousPatterns
    /\ pc = [c \in cs |-> "idle"]
    /\ vision_input = [c \in cs |-> << >>]
    /\ objects = [c \in cs |-> PyList(<< >>)]
    /\ scene = [c \in cs |-> ""]
    /\ action = [c \in cs |-> ""]
    /\ time_of_day = [c \in cs |-> ""]
    /\ summary = [c \in cs |-> ""]
    /\ desc_parts = [c \in cs |-> << >>]
    /\ description = [c \in cs |-> ""]
    /\ context = [c \in cs |-> ""]
    /\ highlights = [c \in cs |-> << >>]
    /\ suspicion_level = [c \in cs |-> ""]
    /\ idx = [c \in cs |-> 0]
    /\ result = [c \in cs |-> NoResult]
    /\ report = [c \in cs |-> << >>]

\* lines 50-53: a call begins and reads its four fields; nothing is left of
\* the call before it
analyze(c, vi) ==
    /\ pc[c] \in {"idle", "reported"}
    /\ vision_input' = [vision_input EXCEPT ![c] = vi]
    /\ objects' = [objects EXCEPT ![c] = Get(vi, "detected_objects", PyList(<< >>))]
    /\ scene' = [scene EXCEPT ![c] = Get(vi, "scene", "unknown")]
    /\ action' = [action EXCEPT ![c] = Get(vi, "action", "stationary")]
    /\ time_of_day' = [time_of_day EXCEPT ![c] = Get(vi, "time", "day")]
    /\ summary' = [summary EXCEPT ![c] = ""]
    /\ desc_parts' = [desc_parts EXCEPT ![c] = << >>]
    /\ description' = [description EXCEPT ![c] = ""]
    /\ context' = [context EXCEPT ![c] = ""]
    /\ highlights' = [highlights EXCEPT ![c] = << >>]
    /\ suspicion_level' = [suspicion_level EXCEPT ![c] = ""]
    /\ idx' = [idx EXCEPT ![c] = 0]
    /\ result' = [result EXCEPT ![c] = NoResult]
    /\ report' = [report EXCEPT ![c] = << >>]
    /\ pc' = [pc EXCEPT ![c] = "summary"]
    /\ UNCHANGED catalogs

\* line 56.  `not objects` is true of None as it is of the empty list.
GenerateSummary(c) ==
    /\ pc[c] = "summary"
    /\ summary' = [summary EXCEPT ![c] =
                       _generate_summary(objects[c].value, scene[c], action[c])]
    /\ pc' = [pc EXCEPT ![c] = "description"]
    /\ UNCHANGED << catalogs, args, desc_parts, description, context,
                    check_locals, result, report >>

\* line 59
CreateDescription(c) ==
    /\ pc[c] = "description"
    /\ desc_parts' = [desc_parts EXCEPT ![c] =
                          DescParts(common_combinations, objects[c].value, action[c])]
    /\ description' = [description EXCEPT ![c] =
                           _create_description(common_combinations, objects[c].value,
                                               scene[c], action[c])]
    /\ pc' = [pc EXCEPT ![c] = "context"]
    /\ UNCHANGED << catalogs, args, summary, context, check_locals, result, report >>

\* line 62.  `"person" in objects` (line 140) raises TypeError when objects
\* is None: the call ends in an exception.
AnalyzeContext(c) ==
    /\ pc[c] = "context"
    /\ IF objects[c].type = "list"
       THEN /\ context' = [context EXCEPT ![c] =
                               _analyze_context(objects[c].value, scene[c], action[c])]
            /\ pc' = [pc EXCEPT ![c] = "check"]
       ELSE /\ pc' = [pc EXCEPT ![c] = "error"]
            /\ UNCHANGED context
    /\ UNCHANGED << catalogs, args, summary, desc_parts, description,
                    check_locals, result, report >>

\* a faulty beginning: highlights is kept on the interpreter and shared, so
\* that emptying it empties it for every call
CheckBeginShared(c) ==
    /\ pc[c] = "check"
    /\ highlights' = [d \in DOMAIN highlights |-> << >>]
    /\ suspicion_level' = [suspicion_level EXCEPT ![c] = NORMAL]
    /\ idx' = [idx EXCEPT ![c] = 1]
    /\ pc' = [pc EXCEPT ![c] = "patterns"]
    /\ UNCHANGED << catalogs, args, texts, result, report >>

\* lines 151-152: the locals of _check_suspicious_activity
CheckBegin(c) ==
    /\ pc[c] = "check"
    /\ highlights' = [highlights EXCEPT ![c] = << >>]
    /\ suspicion_level' = [suspicion_level EXCEPT ![c] = NORMAL]
    /\ idx' = [idx EXCEPT ![c] = 1]
    /\ pc' = [pc EXCEPT ![c] = "patterns"]
    /\ UNCHANGED << catalogs, args, texts, result, report >>

\* lines 155-158: one pass of the loop over suspicious_patterns
CheckPattern(c) ==
    /\ pc[c] = "patterns"
    /\ idx[c] <= Len(suspicious_patterns)
    /\ LET st == PatternStep([highlights |-> highlights[c],
                              suspicion_level |-> suspicion_level[c]],
                             suspicious_patterns[idx[c]],
                             objects[c].value, action[c], time_of_day[c])
       IN  /\ highlights' = [highlights EXCEPT ![c] = st.highlights]
           /\ suspicion_level' = [suspicion_level EXCEPT ![c] = st.suspicion_level]
    /\ IF idx[c] < Len(suspicious_patterns)
       THEN /\ idx' = [idx EXCEPT ![c] = @ + 1]
            /\ UNCHANGED pc
       ELSE /\ idx' = [idx EXCEPT ![c] = 1]
            /\ pc' = [pc EXCEPT ![c] = "unusual"]
    /\ UNCHANGED << catalogs, args, texts, result, report >>

\* lines 168-172: one pass of the loop over unusual_checks
CheckUnusual(c) ==
    /\ pc[c] = "unusual"
    /\ LET checks == unusual_checks(objects[c].value, scene[c], action[c], time_of_day[c])
           st == UnusualStep([highlights |-> highlights[c],
                              suspicion_level |-> suspicion_level[c]],
                             checks[idx[c]])
       IN  /\ highlights' = [highlights EXCEPT ![c] = st.highlights]
           /\ suspicion_level' = [suspicion_level EXCEPT ![c] = st.suspicion_level]
           /\ IF idx[c] < Len(checks)
              THEN /\ idx' = [idx EXCEPT ![c] = @ + 1]
                   /\ UNCHANGED pc
              ELSE /\ idx' = [idx EXCEPT ![c] = 0]
                   /\ pc' = [pc EXCEPT ![c] = "return"]
    /\ UNCHANGED << catalogs, args, texts, result, report >>

\* lines 69-75
Return(c) ==
    /\ pc[c] = "return"
    /\ result' = [result EXCEPT ![c] =
                      [summary |-> summary[c], description |-> description[c],
                       context |-> context[c],
                       suspicion_level |-> suspicion_level[c],
                       highlights |-> highlights[c]]]
    /\ pc' = [pc EXCEPT ![c] = "done"]
    /\ UNCHANGED << catalogs, args, texts, check_locals, report >>

\* line 238 of main(): the caller renders the analysis it got; the call is
\* over.  A call that raised stays where the exception left it.
FormatOutput(c) ==
    /\ pc[c] = "done"
    /\ report' = [report EXCEPT ![c] = format_output(result[c])]
    /\ pc' = [pc EXCEPT ![c] = "reported"]
    /\ UNCHANGED << catalogs, args, texts, check_locals, result >>

\* every step of a call but its beginning
Step(c) ==
    \/ GenerateSummary(c)
    \/ CreateDescription(c)
    \/ AnalyzeContext(c)
    \/ CheckBegin(c)
    \/ CheckPattern(c)
    \/ CheckUnusual(c)
    \/ Return(c)
    \/ FormatOutput(c)

(***************************************************************************)
(* Spec: one call, over every enumerated input record.  A call leaves      *)
(* nothing behind that a later call reads, so a second call would walk     *)
(* through the same states again.                                          *)
(***************************************************************************)
SingleCall == {1}

Init == InitCalls(SingleCall)

Call(c) ==
    /\ pc[c] = "idle"
    /\ \E o \in ObjectChoices, s \in SceneChoices, a \in ActionChoices, t \in TimeChoices :
           analyze(c, MkInput(o, s, a, t))

Next == \E c \in SingleCall : Call(c) \/ Step(c)

Spec == Init /\ [][Next]_vars

(***************************************************************************)
(* SpecConcurrent: NumCalls threads on one interpreter, each making call   *)
(* after call, interleaved in any way.                                     *)
(***************************************************************************)
ConcurrentCalls == 1..NumCalls

InitConcurrent == InitCalls(ConcurrentCalls)

CallConcurrent(c) ==
    /\ pc[c] \in {"idle", "reported"}
    /\ \E n \in 1..Len(ConcurrentInputs) : analyze(c, ConcurrentInputs[n])

NextConcurrent == \E c \in ConcurrentCalls : CallConcurrent(c) \/ Step(c)

SpecConcurrent == InitConcurrent /\ [][NextConcurrent]_vars

\* analyze run alone on vi with the catalogs cc and sp: its result, or the
\* exception that ends it
AnalyzeAlone(cc, sp, vi) ==
    LET objs == Get(vi, "detected_objects", PyList(<< >>))
        scn == Get(vi, "scene", "unknown")
        act == Get(vi, "action", "stationary")
        tm == Get(vi, "time", "day")
        chk == _check_suspicious_activity(sp, objs.value, scn, act, tm)
    IN  IF objs.type = "list"
        THEN [pc |-> "done",
              result |-> [summary |-> _generate_summary(objs.value, scn, act),
                          description |-> _create_description(cc, objs.value, scn, act),
                          context |-> _analyze_context(objs.value, scn, act),
                          suspicion_level |-> chk.suspicion_level,
                          highlights |-> chk.highlights]]
        ELSE [pc |-> "error", result |-> NoResult]

(***************************************************************************)
(* Properties.                                                             *)
(***************************************************************************)
Returned(c) == pc[c] \in {"done", "reported"}

\* the highlight that a label makes
Alert(label) == AlertPrefix \o " " \o label

\* set(objects) | {action}, and set(objects) | {action, time}, of a call
ObjectActionTokens(c) ==
    {objects[c].value[k] : k \in 1..Len(objects[c].value)} \cup {action[c]}
AllTokens(c) == ObjectActionTokens(c) \cup {time_of_day[c]}

\* the four ad-hoc guards as the specification words them
RunningAtNight(c) == action[c] = "running" /\ time_of_day[c] = "night"
Restricted(c) == scene[c] = "restricted"
ClimbingOutsideGym(c) == action[c] = "climbing" /\ scene[c] # "gym"
CrowdRunning(c) == {"crowd", "running"} \subseteq ObjectActionTokens(c)

\* C1: a call with no detected object and none of the four guards true, as
\* they are worded, returns NORMAL and no highlight.
C1_EmptySceneIsNormal ==
    \A c \in Calls :
        (/\ Returned(c)
         /\ objects[c].value = << >>
         /\ ~RunningAtNight(c) /\ ~Restricted(c)
         /\ ~ClimbingOutsideGym(c) /\ ~CrowdRunning(c))
        => /\ result[c].suspicion_level = NORMAL
           /\ result[c].highlights = << >>

Rank(level) ==
    CASE level = NORMAL -> 0
      [] level = UNUSUAL -> 1
      [] level = SUSPICIOUS -> 2

\* C2: within one call of _check_suspicious_activity the level starts at
\* NORMAL and no pass of the catalog loop or of the guard loop lowers it.
C2_LevelNeverLowered ==
    [][\A c \in Calls :
          /\ (pc[c] = "check" /\ pc'[c] = "patterns")
                => suspicion_level'[c] = NORMAL
          /\ pc[c] \in {"patterns", "unusual"}
                => Rank(suspicion_level[c]) <= Rank(suspicion_level'[c])]_vars

\* a guard has fired on a level that a catalog match had raised to
\* SUSPICIOUS, and the level is still SUSPICIOUS after the last guard
C2_Witness ==
    \E c \in Calls :
        /\ pc[c] = "return"
        /\ suspicion_level[c] = SUSPICIOUS
        /\ \E k \in 1..Len(suspicious_patterns) :
               highlights[c][1] = Alert(suspicious_patterns[k].warning)
        /\ highlights[c][Len(highlights[c])] =
               Alert("Multiple people running - possible emergency")

\* rule k of the suspicion catalog has all its tokens among the tokens of c
RuleHolds(c, k) ==
    {suspicious_patterns[k].pattern[j] : j \in 1..Len(suspicious_patterns[k].pattern)}
        \subseteq AllTokens(c)

\* C3: the returned level is SUSPICIOUS exactly when some rule of
\* suspicious_patterns has every token in set(objects) | {action, time}, and
\* the highlights then hold the label of every such rule.
C3_SuspiciousIffRuleMatches ==
    \A c \in Calls :
        Returned(c) =>
            /\ result[c].suspicion_level = SUSPICIOUS
                  <=> \E k \in 1..Len(suspicious_patterns) : RuleHolds(c, k)
            /\ \A k \in 1..Len(suspicious_patterns) :
                   RuleHolds(c, k)
                       => In(Alert(suspicious_patterns[k].warning), result[c].highlights)

\* a SUSPICIOUS result whose rule matched through the action token, which is
\* no detected object
C3_Witness ==
    \E c \in Calls :
        /\ Returned(c)
        /\ result[c].suspicion_level = SUSPICIOUS
        /\ RuleHolds(c, 2)
        /\ ~In("running", objects[c].value)
        /\ In(Alert("potential theft in progress"), result[c].highlights)

\* C4: "Person running at night" is among the highlights exactly when the
\* action is "running" and the time is "night".
C4_RunningAtNightIff ==
    \A c \in Calls :
        Returned(c) =>
            (In(Alert("Person running at night"), result[c].highlights)
                <=> RunningAtNight(c))

\* C5: "Multiple people running - possible emergency" is among the
\* highlights exactly when "crowd" and "running" are both among the object
\* and action tokens.
C5_CrowdRunningIff ==
    \A c \in Calls :
        Returned(c) =>
            (In(Alert("Multiple people running - possible emergency"),
                result[c].highlights)
                <=> CrowdRunning(c))

\* the positions of the detected objects, other than "person", that some
\* combination rule holds together with "person"
ComboObjects(c) ==
    {n \in 1..Len(objects[c].value) :
        /\ objects[c].value[n] # "person"
        /\ \E k \in 1..Len(common_combinations) :
               /\ In("person", common_combinations[k].combo)
               /\ In(objects[c].value[n], common_combinations[k].combo)}

\* the rules that hold "person" and the object at position n
RulesOf(c, n) ==
    {k \in 1..Len(common_combinations) :
        /\ In("person", common_combinations[k].combo)
        /\ In(objects[c].value[n], common_combinations[k].combo)}

Max(S) == CHOOSE x \in S : \A y \in S : y <= x
Min(S) == CHOOSE x \in S : \A y \in S : x <= y

\* the case of C6: a person and several other objects that match a rule
SeveralCombos(c) ==
    /\ pc[c] \in {"context", "check", "patterns", "unusual", "return", "done", "reported"}
    /\ In("person", objects[c].value)
    /\ Cardinality(ComboObjects(c)) >= 2

\* C6 as claimed: the person clause carries the label of the matching rule
\* that is last in the insertion order of common_combinations, whatever the
\* order of detection.
C6_LastCatalogRuleWins ==
    \A c \in Calls :
        SeveralCombos(c) =>
            desc_parts[c][1] = "A person is " \o
                common_combinations[
                    Max(UNION {RulesOf(c, n) : n \in ComboObjects(c)})].activity

\* C6 amended: the person clause carries the label of the rule of the
\* matching object that is last in detection order (the first rule of the
\* catalog that holds this object).
C6_LastDetectedObjectWins ==
    \A c \in Calls :
        SeveralCombos(c) =>
            desc_parts[c][1] = "A person is " \o
                common_combinations[Min(RulesOf(c, Max(ComboObjects(c))))].activity

\* the last matching object stands for an earlier rule of the catalog than
\* another matching object
C6_Witness ==
    \E c \in Calls :
        /\ SeveralCombos(c)
        /\ \E n \in ComboObjects(c) :
               Min(RulesOf(c, n)) > Min(RulesOf(c, Max(ComboObjects(c))))
        /\ desc_parts[c][1] = "A person is " \o
               common_combinations[Min(RulesOf(c, Max(ComboObjects(c))))].activity

\* C7: analyze never fails, whatever the record holds.
C7_AnalyzeNeverFails ==
    \A c \in Calls : pc[c] # "error"

\* C8: under any interleaving of calls the catalogs stay as __init__ built
\* them, and a call ends as it would have ended alone on the same input.
C8_CallsIsolated ==
    /\ common_combinations = InitCommonCombinations
    /\ suspicious_patterns = InitSuspiciousPatterns
    /\ \A c \in Calls :
           pc[c] \in {"done", "reported", "error"} =>
               [pc |-> IF pc[c] = "error" THEN "error" ELSE "done",
                result |-> result[c]]
                   = AnalyzeAlone(InitCommonCombinations, InitSuspiciousPatterns,
                                  vision_input[c])

\* a call has returned while another call, on another input, is in the
\* middle of its rule loops
C8_Witness ==
    \E c, d \in Calls :
        /\ c # d
        /\ pc[c] = "done"
        /\ pc[d] \in {"patterns", "unusual"}
        /\ idx[d] > 1
        /\ highlights[d] # << >>
        /\ result[c].highlights # highlights[d]
        /\ result[c].summary # summary[d]

\* the clauses of the description: the person clause when there is a person,
\* then the clause of the other objects when there are some
Clauses(c) ==
    LET others == OtherObjects(objects[c].value)
    IN  (IF In("person", objects[c].value) THEN << desc_parts[c][1] >> ELSE << >>)
        \o (IF Len(others) = 0 THEN << >>
            ELSE IF Len(others) = 1 THEN << "A " \o others[1] \o " is also visible" >>
            ELSE << "Also visible: " \o Join(others, ", ") >>)

\* C9 as claimed: the description is the clauses joined with ". ", followed
\* by ". on a {scene}.", a period standing before " on a".
C9_PeriodBeforeSuffix ==
    \A c \in Calls :
        (Returned(c) /\ objects[c].value # << >>) =>
            result[c].description =
                Join(Clauses(c), ". ") \o ". on a " \o scene[c] \o "."

\* C9 amended: the description is the clauses joined with ". ", followed by
\* " on a {scene}.", with no period between the last clause and " on a".
C9_NoPeriodBeforeSuffix ==
    \A c \in Calls :
        (Returned(c) /\ objects[c].value # << >>) =>
            result[c].description =
                Join(Clauses(c), ". ") \o " on a " \o scene[c] \o "."

\* a description of two clauses has been returned
C9_Witness ==
    \E c \in Calls :
        /\ Returned(c)
        /\ Len(Clauses(c)) = 2
        /\ result[c].description =
               Clauses(c)[1] \o ". " \o Clauses(c)[2] \o " on a " \o scene[c] \o "."

\* C10: in every returned result the level is NORMAL exactly when there is
\* no highlight, so that the rendering shows the no-alert line exactly for a
\* NORMAL level and never an ALERTS section under a NORMAL level.
C10_LevelAgreesWithHighlights ==
    \A c \in Calls :
        /\ Returned(c) =>
               (result[c].suspicion_level = NORMAL <=> result[c].highlights = << >>)
        /\ pc[c] = "reported" =>
               /\ In(NoAlertLine, report[c]) <=> result[c].suspicion_level = NORMAL
               /\ In(AlertsLine, report[c]) => result[c].suspicion_level # NORMAL

\* a result with highlights and a raised level has been rendered with its
\* ALERTS section
C10_Witness ==
    \E c \in Calls :
        /\ pc[c] = "reported"
        /\ result[c].highlights # << >>
        /\ result[c].suspicion_level = UNUSUAL
        /\ In(AlertsLine, report[c])
        /\ ~In(NoAlertLine, report[c])

====
